---- MODULE Spec2Model ----
(***************************************************************************)
(* Follow graph of the user service: UserRepository.followUser and         *)
(* UserRepository.removeFollow run their two findByIdAndUpdate calls in a  *)
(* MongoDB session transaction; create, updateAccountById and deleteById   *)
(* write single documents outside of any session; the read operations run  *)
(* outside of any session too, findFollowers and findFollowing as two      *)
(* queries.  The authorizeUserAction middleware is modelled as an operator *)
(* applied to a request, userRouter as the middleware lists of its routes, *)
(* and index.ts as the handler invocations sharing one initPromise.        *)
(***************************************************************************)
EXTENDS Integers, Sequences, FiniteSets, TLC

VARIABLES
    User,          \* the committed collection: _id -> [followers, following]
    pc,            \* per request: position inside followUser / removeFollow
    fn,            \* per request: the repository method being run
    userId,        \* per request: first argument
    targetUserId,  \* per request: second argument
    session,       \* per request: "none" | "open" | "ended"
    snap,          \* per request: snapshot of the collection taken by the transaction
    wbuf,          \* per request: documents written by the transaction, not committed yet
    stale,         \* per request: documents committed by others since the snapshot
    log,           \* per request: the storage calls issued by the current call
    result,        \* per request: "none" | "true" | "false" | "raised"
    started,       \* number of repository calls started so far
    req,           \* middleware: the request handed to authorizeUserAction
    res,           \* middleware: what authorizeUserAction did with it
    rd,            \* the last read of the repository: method, arguments, result
    http,          \* router: the route matched, the middlewares run so far, the outcome
    initPromise,   \* index.ts: "null" | "pending" | "fulfilled" | "rejected"
    connectDB,     \* index.ts: the connectDB() calls made by init(), each "pending" |
                   \*           "resolved" | "rejected"
    inv            \* index.ts: per invocation of handler, how far it got

graphVars == <<User, pc, fn, userId, targetUserId, session, snap, wbuf, stale, log,
               result, started>>
authVars == <<req, res>>
readVars == <<rd>>
routeVars == <<http>>
handlerVars == <<initPromise, connectDB, inv>>
nonGraphVars == <<authVars, readVars, routeVars, handlerVars>>
vars == <<User, pc, fn, userId, targetUserId, session, snap, wbuf, stale, log,
          result, started, req, res, rd, http, initPromise, connectDB, inv>>

----------------------------------------------------------------------------
(* Bounds *)

\* calls started in one behaviour
MaxCalls == 2

\* ids of the user records that exist at the start
Users == {1, 2}
\* a well-formed id for which no record exists at the start
Ghosts == {3}
Ids == Users \cup Ghosts
\* concurrent requests
Procs == {1, 2}

\* invocations of the serverless handler in one process
MaxInvocations == 4
Invocations == 1 .. MaxInvocations

----------------------------------------------------------------------------
(* Arrays and update operators *)

Range(arr) == {arr[i] : i \in DOMAIN arr}

\* $push in place of $addToSet: the value is appended even when present
push(arr, x) == Append(arr, x)

\* $addToSet: append the value unless the array already holds it
addToSet(arr, x) == IF x \in Range(arr) THEN arr ELSE Append(arr, x)

\* $pop in place of $pull: the first element goes, whatever it is
pop(arr, x) == IF arr = <<>> THEN arr ELSE Tail(arr)

\* $pull: remove every occurrence of the value
pull(arr, x) ==
    LET keep(e) == e # x
    IN  SelectSeq(arr, keep)

\* apply an update document to a user document
ApplyUpdate(doc, u) ==
    LET old == IF u.field = "followers" THEN doc.followers ELSE doc.following
        new == IF u.op = "$addToSet" THEN addToSet(old, u.value) ELSE pull(old, u.value)
    IN  IF u.field = "followers"
        THEN [doc EXCEPT !.followers = new]
        ELSE [doc EXCEPT !.following = new]

\* followUser: { $addToSet: { followers: userId } } on targetUserId
followUserUpdate1(uid, tid) ==
    [id |-> tid, op |-> "$addToSet", field |-> "followers", value |-> uid]

\* the second write of followUser naming the field of the first one
followUserUpdate2_followers(uid, tid) ==
    [id |-> uid, op |-> "$addToSet", field |-> "followers", value |-> tid]

\* followUser: { $addToSet: { following: targetUserId } } on userId
followUserUpdate2(uid, tid) ==
    [id |-> uid, op |-> "$addToSet", field |-> "following", value |-> tid]

\* removeFollow: { $pull: { followers: userId } } on targetUserId
removeFollowUpdate1(uid, tid) ==
    [id |-> tid, op |-> "$pull", field |-> "followers", value |-> uid]

\* removeFollow: { $pull: { following: targetUserId } } on userId
removeFollowUpdate2(uid, tid) ==
    [id |-> uid, op |-> "$pull", field |-> "following", value |-> tid]

\* removeFollow without its guard
removeFollowNoGuard(uid, tid) == FALSE

\* removeFollow: if (userId === targetUserId) return false;
removeFollowGuard(uid, tid) == uid = tid

\* writes that leave out { session } and so run outside of the transaction
writeOptionsNoSession == [session |-> FALSE]

\* the options of the writes: both pass { session }
writeOptions == [session |-> TRUE]


----------------------------------------------------------------------------
(* The transactional store seen through a session *)

NoSnapshot == <<>>
NoWrites == <<>>

\* one storage call of a repository call: what was called, how it ended, and whether
\* it changed the followers or following of a document
Entry(call, out) == [call |-> call, out |-> out, changed |-> FALSE]
WriteEntry(out, changed) == [call |-> "findByIdAndUpdate", out |-> out, changed |-> changed]

\* the collection as the transaction of request p reads it: its snapshot, taken at
\* its first statement, overlaid with its own writes
TxnView(p) ==
    LET base == IF snap[p] = NoSnapshot THEN User ELSE snap[p][1]
    IN  [d \in DOMAIN base |-> IF d \in DOMAIN wbuf[p] THEN wbuf[p][d] ELSE base[d]]

\* a document another open transaction has written, or that was committed after the
\* snapshot of p, cannot be written by p: the store answers WriteConflict
WriteConflict(p, id) ==
    \/ \E q \in Procs \ {p} : id \in DOMAIN wbuf[q]
    \/ id \in stale[p]

\* a commit of request p makes the documents it wrote stale for the open snapshots
StaleAfterCommit(p, docs) ==
    [q \in Procs |-> IF q # p /\ snap[q] # NoSnapshot THEN stale[q] \cup docs ELSE stale[q]]

Committed(p) ==
    [d \in DOMAIN User |-> IF d \in DOMAIN wbuf[p] THEN wbuf[p][d] ELSE User[d]]

\* const session = await User.startSession(); session.startTransaction();
\* Both stand before the try block: an error of either one leaves the call.
\* startTransaction is synchronous and runs as soon as the session has resolved.
StartSession(p, threwSession, threwTransaction) ==
    /\ pc[p] = "startSession"
    /\ IF threwSession
       THEN /\ log' = [log EXCEPT ![p] = Append(@, Entry("startSession", "threw"))]
            /\ pc' = [pc EXCEPT ![p] = "done"]
            /\ result' = [result EXCEPT ![p] = "raised"]
            /\ UNCHANGED session
       ELSE /\ session' = [session EXCEPT ![p] = "open"]
            /\ IF threwTransaction
               THEN /\ log' = [log EXCEPT ![p] = @ \o <<Entry("startSession", "ok"),
                                                       Entry("startTransaction", "threw")>>]
                    /\ pc' = [pc EXCEPT ![p] = "done"]
                    /\ result' = [result EXCEPT ![p] = "raised"]
               ELSE /\ log' = [log EXCEPT ![p] = @ \o <<Entry("startSession", "ok"),
                                                       Entry("startTransaction", "ok")>>]
                    /\ pc' = [pc EXCEPT ![p] = "write1"]
                    /\ UNCHANGED result
    /\ UNCHANGED <<User, fn, userId, targetUserId, snap, wbuf, stale, started>>

\* an update that sets updatedAt only when it changes a field
setsUpdatedAt_whenChanged(exists, changes) == changes

\* The records carry createdAt and updatedAt, which the repository reads and never
\* sets (normalizeUser, the select lists of findAll and findById): the schema keeps
\* them, so every update of an existing record sets updatedAt and is a write of the
\* document, also when it leaves the array as it is.
setsUpdatedAt(exists, changes) == exists

\* await User.findByIdAndUpdate(id, update, options)
\* With options.session the write goes to the transaction; a record that does not
\* exist makes the call resolve to null without an error.
\* An update that writes the document (setsUpdatedAt) meets the write conflicts of
\* the store and holds the document until the transaction ends.
findByIdAndUpdate(p, u, options, threw, from, to) ==
    LET view == TxnView(p)
        cur == IF options.session THEN view[u.id] ELSE User[u.id]
        new == ApplyUpdate(cur, u)
        exists == u.id \in DOMAIN (IF options.session THEN view ELSE User)
        changes == exists /\ new # cur
        modifies == setsUpdatedAt(exists, changes)
        fails == threw \/ (modifies /\ WriteConflict(p, u.id))
        writes == modifies /\ ~fails
        out == IF fails THEN "threw" ELSE IF exists THEN "doc" ELSE "null"
    IN  /\ pc[p] = from
        /\ log' = [log EXCEPT ![p] = Append(@, WriteEntry(out, changes /\ ~fails))]
        /\ pc' = [pc EXCEPT ![p] = IF fails THEN "catch" ELSE to]
        /\ IF options.session
           THEN /\ snap' = [snap EXCEPT ![p] = IF @ = NoSnapshot THEN <<User>> ELSE @]
                /\ wbuf' = IF writes THEN [wbuf EXCEPT ![p] = (u.id :> new) @@ @] ELSE wbuf
                /\ UNCHANGED <<User, stale>>
           ELSE /\ User' = IF writes THEN [User EXCEPT ![u.id] = new] ELSE User
                /\ stale' = IF writes THEN StaleAfterCommit(p, {u.id}) ELSE stale
                /\ UNCHANGED <<snap, wbuf>>
        /\ UNCHANGED <<fn, userId, targetUserId, session, result, started>>

\* await session.commitTransaction(); session.endSession(); return true;
\* outcome "ok": accepted; "rejected": refused, nothing applied; "lost": applied by
\* the store while the call itself fails (the acknowledgement never arrives)
CommitTransaction(p, outcome) ==
    LET applied == outcome \in {"ok", "lost"}
    IN  /\ pc[p] = "commit"
        /\ User' = IF applied THEN Committed(p) ELSE User
        /\ stale' = [(IF applied THEN StaleAfterCommit(p, DOMAIN wbuf[p]) ELSE stale)
                        EXCEPT ![p] = {}]
        /\ wbuf' = [wbuf EXCEPT ![p] = NoWrites]
        /\ snap' = [snap EXCEPT ![p] = NoSnapshot]
        /\ IF outcome = "ok"
           THEN /\ log' = [log EXCEPT ![p] =
                             @ \o <<Entry("commitTransaction", "ok"), Entry("endSession", "ok")>>]
                /\ session' = [session EXCEPT ![p] = "ended"]
                /\ result' = [result EXCEPT ![p] = "true"]
                /\ pc' = [pc EXCEPT ![p] = "done"]
           ELSE /\ log' = [log EXCEPT ![p] = Append(@, Entry("commitTransaction", outcome))]
                /\ pc' = [pc EXCEPT ![p] = "catch"]
                /\ UNCHANGED <<session, result>>
        /\ UNCHANGED <<fn, userId, targetUserId, started>>

\* catch: await session.abortTransaction(); session.endSession(); return false;
AbortTransaction(p, threw) ==
    /\ pc[p] = "catch"
    /\ wbuf' = [wbuf EXCEPT ![p] = NoWrites]
    /\ snap' = [snap EXCEPT ![p] = NoSnapshot]
    /\ stale' = [stale EXCEPT ![p] = {}]
    /\ pc' = [pc EXCEPT ![p] = "done"]
    /\ IF threw
       THEN /\ log' = [log EXCEPT ![p] = Append(@, Entry("abortTransaction", "threw"))]
            /\ result' = [result EXCEPT ![p] = "raised"]
            /\ UNCHANGED session
       ELSE /\ log' = [log EXCEPT ![p] =
                         @ \o <<Entry("abortTransaction", "ok"), Entry("endSession", "ok")>>]
            /\ result' = [result EXCEPT ![p] = "false"]
            /\ session' = [session EXCEPT ![p] = "ended"]
    /\ UNCHANGED <<User, fn, userId, targetUserId, started>>

----------------------------------------------------------------------------
(* UserRepository.followUser *)

\* Requests are interchangeable: a new call is taken by the lowest request slot whose
\* previous call, if any, has settled.
Free(p) ==
    /\ pc[p] \in {"idle", "done"}
    /\ \A q \in Procs : q < p => pc[q] \notin {"idle", "done"}

followUser(p, uid, tid) ==
    /\ Free(p)
    /\ started < MaxCalls
    /\ started' = started + 1
    /\ fn' = [fn EXCEPT ![p] = "followUser"]
    /\ userId' = [userId EXCEPT ![p] = uid]
    /\ targetUserId' = [targetUserId EXCEPT ![p] = tid]
    /\ session' = [session EXCEPT ![p] = "none"]
    /\ log' = [log EXCEPT ![p] = <<>>]
    /\ result' = [result EXCEPT ![p] = "none"]
    /\ pc' = [pc EXCEPT ![p] = "startSession"]
    /\ UNCHANGED <<User, snap, wbuf, stale>>

followUser_startSession(p) ==
    /\ fn[p] = "followUser"
    /\ \E threwSession \in BOOLEAN, threwTransaction \in BOOLEAN :
          StartSession(p, threwSession, threwTransaction)

followUser_write1(p) ==
    /\ fn[p] = "followUser"
    /\ \E threw \in BOOLEAN :
          findByIdAndUpdate(p, followUserUpdate1(userId[p], targetUserId[p]),
                            writeOptions, threw, "write1", "write2")

followUser_write2(p) ==
    /\ fn[p] = "followUser"
    /\ \E threw \in BOOLEAN :
          findByIdAndUpdate(p, followUserUpdate2(userId[p], targetUserId[p]),
                            writeOptions, threw, "write2", "commit")

followUser_commit(p) ==
    /\ fn[p] = "followUser"
    /\ \E outcome \in {"ok", "rejected", "lost"} : CommitTransaction(p, outcome)

followUser_catch(p) ==
    /\ fn[p] = "followUser"
    /\ \E threw \in BOOLEAN : AbortTransaction(p, threw)

----------------------------------------------------------------------------
(* UserRepository.removeFollow *)

removeFollow(p, uid, tid) ==
    /\ Free(p)
    /\ started < MaxCalls
    /\ started' = started + 1
    /\ fn' = [fn EXCEPT ![p] = "removeFollow"]
    /\ userId' = [userId EXCEPT ![p] = uid]
    /\ targetUserId' = [targetUserId EXCEPT ![p] = tid]
    /\ session' = [session EXCEPT ![p] = "none"]
    /\ log' = [log EXCEPT ![p] = <<>>]
    /\ IF removeFollowGuard(uid, tid)
       THEN /\ pc' = [pc EXCEPT ![p] = "done"]
            /\ result' = [result EXCEPT ![p] = "false"]
       ELSE /\ pc' = [pc EXCEPT ![p] = "startSession"]
            /\ result' = [result EXCEPT ![p] = "none"]
    /\ UNCHANGED <<User, snap, wbuf, stale>>

removeFollow_startSession(p) ==
    /\ fn[p] = "removeFollow"
    /\ \E threwSession \in BOOLEAN, threwTransaction \in BOOLEAN :
          StartSession(p, threwSession, threwTransaction)

removeFollow_write1(p) ==
    /\ fn[p] = "removeFollow"
    /\ \E threw \in BOOLEAN :
          findByIdAndUpdate(p, removeFollowUpdate1(userId[p], targetUserId[p]),
                            writeOptions, threw, "write1", "write2")

removeFollow_write2(p) ==
    /\ fn[p] = "removeFollow"
    /\ \E threw \in BOOLEAN :
          findByIdAndUpdate(p, removeFollowUpdate2(userId[p], targetUserId[p]),
                            writeOptions, threw, "write2", "commit")

removeFollow_commit(p) ==
    /\ fn[p] = "removeFollow"
    /\ \E outcome \in {"ok", "rejected", "lost"} : CommitTransaction(p, outcome)

removeFollow_catch(p) ==
    /\ fn[p] = "removeFollow"
    /\ \E threw \in BOOLEAN : AbortTransaction(p, threw)

----------------------------------------------------------------------------
(* UserRepository.create, updateAccountById, deleteById: one statement     *)
(* each, outside of any session                                            *)

\* a write outside of a transaction waits while an open transaction holds a write to
\* the same document
HeldByTransaction(id) == \E q \in Procs : id \in DOMAIN wbuf[q]

\* a write outside of a transaction makes its document stale for the open snapshots
StaleAfterWrite(docs) ==
    [q \in Procs |-> IF snap[q] # NoSnapshot THEN stale[q] \cup docs ELSE stale[q]]

\* a new record: its followers and following are empty
NewUser == [followers |-> <<>>, following |-> <<>>]

\* the fields that updateAccountById is given: one that is no part of the graph, or
\* one of the two arrays with the value to set it to
Updates == {[field |-> "fullName"],
            [field |-> "followers", value |-> <<>>],
            [field |-> "following", value |-> <<>>]}

\* { $set: updates }
Set(doc, updates) ==
    CASE updates.field = "followers" -> [doc EXCEPT !.followers = updates.value]
      [] updates.field = "following" -> [doc EXCEPT !.following = updates.value]
      [] OTHER -> doc

\* await User.create(data), data._id = id; a duplicate id or a storage error is
\* caught: return null
create(id, threw) ==
    /\ started < MaxCalls
    /\ started' = started + 1
    /\ User' = IF ~threw /\ id \notin DOMAIN User
               THEN [d \in DOMAIN User \cup {id} |-> IF d = id THEN NewUser ELSE User[d]]
               ELSE User
    /\ UNCHANGED <<pc, fn, userId, targetUserId, session, snap, wbuf, stale, log, result>>

\* await User.findByIdAndUpdate(userId, { $set: updates }, { new: true })
updateAccountById(id, updates, threw) ==
    LET writes == ~threw /\ id \in DOMAIN User
    IN  /\ started < MaxCalls
        /\ started' = started + 1
        /\ writes => ~HeldByTransaction(id)
        /\ User' = IF writes THEN [User EXCEPT ![id] = Set(@, updates)] ELSE User
        /\ stale' = IF writes THEN StaleAfterWrite({id}) ELSE stale
        /\ UNCHANGED <<pc, fn, userId, targetUserId, session, snap, wbuf, log, result>>

\* await User.findByIdAndDelete(userId): the record goes, the arrays of the other
\* records keep its id
deleteById(id, threw) ==
    LET writes == ~threw /\ id \in DOMAIN User
    IN  /\ started < MaxCalls
        /\ started' = started + 1
        /\ writes => ~HeldByTransaction(id)
        /\ User' = IF writes THEN [d \in DOMAIN User \ {id} |-> User[d]] ELSE User
        /\ stale' = IF writes THEN StaleAfterWrite({id}) ELSE stale
        /\ UNCHANGED <<pc, fn, userId, targetUserId, session, snap, wbuf, log, result>>

----------------------------------------------------------------------------
(* Reads: they run outside of any session and see the committed collection *)

Null == [null |-> TRUE]

\* the ids of a query result, in the collection's order
RECURSIVE IdsInOrder(_, _)
IdsInOrder(ids, from) ==
    IF \A d \in Ids : d < from THEN <<>>
    ELSE (IF from \in ids THEN <<[id |-> from]>> ELSE <<>>) \o IdsInOrder(ids, from + 1)

\* User.findOne({ _id: targetUserId, followers: userId })
isFollowing(uid, tid) ==
    /\ tid \in DOMAIN User
    /\ uid \in Range(User[tid].followers)

findFollowers(uid) ==
    IF uid \notin DOMAIN User \/ Len(User[uid].followers) = 0 THEN <<>>
    ELSE IdsInOrder(Range(User[uid].followers) \cap DOMAIN User, 1)

findFollowing(uid) ==
    IF uid \notin DOMAIN User \/ Len(User[uid].following) = 0 THEN <<>>
    ELSE IdsInOrder(Range(User[uid].following) \cap DOMAIN User, 1)

getFollowCounts(uid) ==
    IF uid \notin DOMAIN User THEN Null
    ELSE [followerCount |-> Len(User[uid].followers),
          followingCount |-> Len(User[uid].following)]

----------------------------------------------------------------------------
(* Specification of the follow graph *)

NoRequest == [user |-> [kind |-> "undefined"], id |-> [kind |-> "undefined"],
              method |-> [kind |-> "undefined"]]
NoResponse == [ran |-> FALSE, thrown |-> 0, message |-> "", next |-> 0]

\* no read has been made
NoRead == [op |-> "none"]

\* no request has been routed
NoDispatch == [route |-> "none", at |-> 0, ran |-> <<>>, error |-> 0, changed |-> FALSE]

\* an invocation of handler that has not arrived
NotInvoked == [pc |-> "idle", dispatched |-> FALSE, status |-> 0]

\* let initPromise: Promise<void> | null = null;
HandlerInit ==
    /\ initPromise = "null"
    /\ connectDB = <<>>
    /\ inv = [h \in Invocations |-> NotInvoked]

Init ==
    /\ User = [d \in Users |-> [followers |-> <<>>, following |-> <<>>]]
    /\ pc = [p \in Procs |-> "idle"]
    /\ fn = [p \in Procs |-> "none"]
    /\ userId = [p \in Procs |-> 0]
    /\ targetUserId = [p \in Procs |-> 0]
    /\ session = [p \in Procs |-> "none"]
    /\ snap = [p \in Procs |-> NoSnapshot]
    /\ wbuf = [p \in Procs |-> NoWrites]
    /\ stale = [p \in Procs |-> {}]
    /\ log = [p \in Procs |-> <<>>]
    /\ result = [p \in Procs |-> "none"]
    /\ started = 0
    /\ req = NoRequest
    /\ res = NoResponse
    /\ rd = NoRead
    /\ http = NoDispatch
    /\ HandlerInit

\* the steps of a followUser or removeFollow call after its first
NextFollowSteps ==
    \/ \E p \in Procs : followUser_startSession(p) /\ UNCHANGED nonGraphVars
    \/ \E p \in Procs : followUser_write1(p) /\ UNCHANGED nonGraphVars
    \/ \E p \in Procs : followUser_write2(p) /\ UNCHANGED nonGraphVars
    \/ \E p \in Procs : followUser_commit(p) /\ UNCHANGED nonGraphVars
    \/ \E p \in Procs : followUser_catch(p) /\ UNCHANGED nonGraphVars
    \/ \E p \in Procs : removeFollow_startSession(p) /\ UNCHANGED nonGraphVars
    \/ \E p \in Procs : removeFollow_write1(p) /\ UNCHANGED nonGraphVars
    \/ \E p \in Procs : removeFollow_write2(p) /\ UNCHANGED nonGraphVars
    \/ \E p \in Procs : removeFollow_commit(p) /\ UNCHANGED nonGraphVars
    \/ \E p \in Procs : removeFollow_catch(p) /\ UNCHANGED nonGraphVars

\* the calls of followUser and removeFollow, with any two ids
NextFollow ==
    \/ \E p \in Procs, uid \in Ids, tid \in Ids : followUser(p, uid, tid) /\ UNCHANGED nonGraphVars
    \/ \E p \in Procs, uid \in Ids, tid \in Ids : removeFollow(p, uid, tid) /\ UNCHANGED nonGraphVars
    \/ NextFollowSteps

\* the calls that create, overwrite or delete a record
NextRecords ==
    \/ \E id \in Ids, threw \in BOOLEAN : create(id, threw) /\ UNCHANGED nonGraphVars
    \/ \E id \in Ids, updates \in Updates, threw \in BOOLEAN :
          updateAccountById(id, updates, threw) /\ UNCHANGED nonGraphVars
    \/ \E id \in Ids, threw \in BOOLEAN : deleteById(id, threw) /\ UNCHANGED nonGraphVars

Next == NextFollow \/ NextRecords

Spec == Init /\ [][Next]_vars

\* a collection of the records of the start in which one user may follow the other
Stores ==
    {[d \in Users |-> [followers |-> <<>>, following |-> <<>>]]}
        \cup {[d \in Users |-> [followers |-> IF d = e[2] THEN <<e[1]>> ELSE <<>>,
                                 following |-> IF d = e[1] THEN <<e[2]>> ELSE <<>>]] :
                  e \in {e \in Users \X Users : e[1] # e[2]}}

\* no call has started, on a collection with or without an edge
InitPair ==
    /\ User \in Stores
    /\ pc = [p \in Procs |-> "idle"]
    /\ fn = [p \in Procs |-> "none"]
    /\ userId = [p \in Procs |-> 0]
    /\ targetUserId = [p \in Procs |-> 0]
    /\ session = [p \in Procs |-> "none"]
    /\ snap = [p \in Procs |-> NoSnapshot]
    /\ wbuf = [p \in Procs |-> NoWrites]
    /\ stale = [p \in Procs |-> {}]
    /\ log = [p \in Procs |-> <<>>]
    /\ result = [p \in Procs |-> "none"]
    /\ started = 0
    /\ req = NoRequest
    /\ res = NoResponse
    /\ rd = NoRead
    /\ http = NoDispatch
    /\ HandlerInit

\* the calls of followUser and removeFollow on the users that have a record
NextPair ==
    \/ \E p \in Procs, uid \in Users, tid \in Users :
          followUser(p, uid, tid) /\ UNCHANGED nonGraphVars
    \/ \E p \in Procs, uid \in Users, tid \in Users :
          removeFollow(p, uid, tid) /\ UNCHANGED nonGraphVars
    \/ NextFollowSteps

\* followUser and removeFollow on the users of the start, which may hold an edge
SpecPair == InitPair /\ [][NextPair]_vars

\* followUser and removeFollow alone, on the records of the start
SpecFollow == Init /\ [][NextFollow]_vars

----------------------------------------------------------------------------
(* authorizeUserAction middleware *)

\* roles of UserRole
Roles == {"USER", "ADMIN"}
ActorIds == {"u1", "u2", "a1"}

Undefined == [kind |-> "undefined"]
Str(s) == [kind |-> "string", val |-> s]

\* req.user: absent, or { id, role }
ReqUsers == {Undefined} \cup {[kind |-> "user", id |-> i, role |-> r] : i \in ActorIds, r \in Roles}
\* req.params?.id: absent, the empty string, an id, or a value that is no string
ReqIds == {Undefined, Str(""), [kind |-> "object", val |-> "u1"]} \cup {Str(i) : i \in ActorIds}
\* req.method
ReqMethods == {Undefined, Str("GET"), Str("PATCH"), Str("POST"), Str("DELETE"), Str("delete")}

Requests == [user : ReqUsers, id : ReqIds, method : ReqMethods]

\* String.prototype.toUpperCase on the methods above
toUpperCase(s) ==
    CASE s = "delete" -> "DELETE"
      [] s = "get" -> "GET"
      [] s = "patch" -> "PATCH"
      [] s = "post" -> "POST"
      [] OTHER -> s

\* req.method?.toUpperCase()
Method(r) == IF r.method.kind = "undefined" THEN Undefined ELSE Str(toUpperCase(r.method.val))

\* !value
Falsy(v) == v.kind = "undefined" \/ (v.kind = "string" /\ v.val = "")

Throw(status, message) == [ran |-> TRUE, thrown |-> status, message |-> message, next |-> 0]
CallNext == [ran |-> TRUE, thrown |-> 0, message |-> "", next |-> 1]

\* the middleware with the admin rule letting every request through
authorizeUserAction_adminAlways(message, r) ==
    LET user == r.user
        target == r.id
        isSelf == target.kind = "string" /\ user.id = target.val
        isAdmin == user.role = "ADMIN"
    IN  IF user.kind = "undefined"
        THEN Throw(401, "Unauthorized request")
        ELSE IF Falsy(target) \/ target.kind # "string"
        THEN Throw(400, "Target user not specified")
        ELSE IF isAdmin \/ isSelf
        THEN CallNext
        ELSE Throw(403, "You do not have permission to perform this action")

\* the middleware validating the target before it looks at the actor
authorizeUserAction_targetFirst(message, r) ==
    LET user == r.user
        target == r.id
        method == Method(r)
        isSelf == target.kind = "string" /\ user.id = target.val
        isAdmin == user.role = "ADMIN"
    IN  IF Falsy(target) \/ target.kind # "string"
        THEN Throw(400, "Target user not specified")
        ELSE IF user.kind = "undefined"
        THEN Throw(401, "Unauthorized request")
        ELSE IF isAdmin
        THEN IF isSelf /\ method = Str("DELETE")
             THEN Throw(403, message)
             ELSE CallNext
        ELSE IF isSelf
        THEN CallNext
        ELSE Throw(403, "You do not have permission to perform this action")

authorizeUserAction(message, r) ==
    LET user == r.user
        target == r.id
        method == Method(r)
        isSelf == target.kind = "string" /\ user.id = target.val
        isAdmin == user.role = "ADMIN"
    IN  IF user.kind = "undefined"
        THEN Throw(401, "Unauthorized request")
        ELSE IF Falsy(target) \/ target.kind # "string"
        THEN Throw(400, "Target user not specified")
        ELSE IF isAdmin
        THEN IF isSelf /\ method = Str("DELETE")
             THEN Throw(403, message)
             ELSE CallNext
        ELSE IF isSelf
        THEN CallNext
        ELSE Throw(403, "You do not have permission to perform this action")

DefaultMessage == "Action not allowed on yourself"

\* the router runs the middleware on the request
Authorize ==
    /\ ~res.ran
    /\ res' = authorizeUserAction(DefaultMessage, req)
    /\ UNCHANGED req

InitAuth ==
    /\ User = [d \in Users |-> [followers |-> <<>>, following |-> <<>>]]
    /\ pc = [p \in Procs |-> "idle"]
    /\ fn = [p \in Procs |-> "none"]
    /\ userId = [p \in Procs |-> 0]
    /\ targetUserId = [p \in Procs |-> 0]
    /\ session = [p \in Procs |-> "none"]
    /\ snap = [p \in Procs |-> NoSnapshot]
    /\ wbuf = [p \in Procs |-> NoWrites]
    /\ stale = [p \in Procs |-> {}]
    /\ log = [p \in Procs |-> <<>>]
    /\ result = [p \in Procs |-> "none"]
    /\ started = 0
    /\ req \in Requests
    /\ res = NoResponse
    /\ rd = NoRead
    /\ http = NoDispatch
    /\ HandlerInit

NextAuth == Authorize /\ UNCHANGED <<graphVars, readVars, routeVars, handlerVars>>

SpecAuth == InitAuth /\ [][NextAuth]_vars

----------------------------------------------------------------------------
(* The read methods as they are called: the query inside try, the catch    *)
(* block that turns an error of the query into the method's default.       *)

\* the read r has returned: no query of it is pending
Returned(r) == r.op \in {"findFollowers", "findFollowing"} => ~r.pending

\* rd holds one read: the one that is running or, until the next followUser,
\* removeFollow or record call starts, the one that returned last
CanRead == rd = NoRead

\* a followUser, removeFollow or record call starts: a read that has returned is no
\* longer held, a read whose second query is pending goes on
CallStarts ==
    /\ rd' = IF Returned(rd) THEN NoRead ELSE rd
    /\ UNCHANGED <<authVars, routeVars, handlerVars>>

\* isFollowing: return !!user; catch: return false;
isFollowing_call(uid, tid, threw) ==
    /\ CanRead
    /\ rd' = [op |-> "isFollowing", userId |-> uid, targetUserId |-> tid, threw |-> threw,
              out |-> IF threw THEN FALSE ELSE isFollowing(uid, tid)]
    /\ UNCHANGED <<graphVars, authVars, routeVars, handlerVars>>

\* User.find({ _id: { $in: ids } }): the summaries of those ids that have a record
find_in(ids) == IdsInOrder(Range(ids) \cap DOMAIN User, 1)

\* the first query of findFollowers / findFollowing has been answered: the read has
\* returned [] (an error, no record, an empty array), or its second query is pending
FirstQuery(op, uid, threw, ids) ==
    [op |-> op, userId |-> uid, targetUserId |-> 0, threw |-> threw, ids |-> ids,
     pending |-> ~threw /\ Len(ids) # 0, out |-> <<>>]

\* the second query has been answered: the read returns its summaries, or [] from the
\* catch block
SecondQuery(r, threw) ==
    [r EXCEPT !.pending = FALSE, !.threw = threw,
              !.out = IF threw THEN <<>> ELSE find_in(r.ids)]

\* findFollowers: const user = await User.findById(userId).select("followers").lean();
\* if (!user || user.followers.length === 0) return [];
findFollowers_call(uid, threw) ==
    /\ CanRead
    /\ rd' = FirstQuery("findFollowers", uid, threw,
                        IF ~threw /\ uid \in DOMAIN User THEN User[uid].followers ELSE <<>>)
    /\ UNCHANGED <<graphVars, authVars, routeVars, handlerVars>>

\* findFollowers: const followers = await User.find({ _id: { $in: user.followers } })
findFollowers_find(threw) ==
    /\ rd.op = "findFollowers" /\ rd.pending
    /\ rd' = SecondQuery(rd, threw)
    /\ UNCHANGED <<graphVars, authVars, routeVars, handlerVars>>

\* findFollowing: const user = await User.findById(userId).select("following").lean();
\* if (!user || user.following.length === 0) return [];
findFollowing_call(uid, threw) ==
    /\ CanRead
    /\ rd' = FirstQuery("findFollowing", uid, threw,
                        IF ~threw /\ uid \in DOMAIN User THEN User[uid].following ELSE <<>>)
    /\ UNCHANGED <<graphVars, authVars, routeVars, handlerVars>>

\* findFollowing: const following = await User.find({ _id: { $in: user.following } })
findFollowing_find(threw) ==
    /\ rd.op = "findFollowing" /\ rd.pending
    /\ rd' = SecondQuery(rd, threw)
    /\ UNCHANGED <<graphVars, authVars, routeVars, handlerVars>>

\* getFollowCounts: if (!user) return null; catch: return null;
getFollowCounts_call(uid, threw) ==
    /\ CanRead
    /\ rd' = [op |-> "getFollowCounts", userId |-> uid, targetUserId |-> 0, threw |-> threw,
              out |-> IF threw THEN Null ELSE getFollowCounts(uid)]
    /\ UNCHANGED <<graphVars, authVars, routeVars, handlerVars>>

\* the request slots of the calls that the reads are interleaved with: the calls run
\* one at a time
Writers == {1}

\* the calls of followUser and removeFollow, interleaved with the reads
NextFollowRead ==
    \/ \E p \in Writers, uid \in Ids, tid \in Ids : followUser(p, uid, tid) /\ CallStarts
    \/ \E p \in Writers : followUser_startSession(p) /\ UNCHANGED nonGraphVars
    \/ \E p \in Writers : followUser_write1(p) /\ UNCHANGED nonGraphVars
    \/ \E p \in Writers : followUser_write2(p) /\ UNCHANGED nonGraphVars
    \/ \E p \in Writers : followUser_commit(p) /\ UNCHANGED nonGraphVars
    \/ \E p \in Writers : followUser_catch(p) /\ UNCHANGED nonGraphVars
    \/ \E p \in Writers, uid \in Ids, tid \in Ids : removeFollow(p, uid, tid) /\ CallStarts
    \/ \E p \in Writers : removeFollow_startSession(p) /\ UNCHANGED nonGraphVars
    \/ \E p \in Writers : removeFollow_write1(p) /\ UNCHANGED nonGraphVars
    \/ \E p \in Writers : removeFollow_write2(p) /\ UNCHANGED nonGraphVars
    \/ \E p \in Writers : removeFollow_commit(p) /\ UNCHANGED nonGraphVars
    \/ \E p \in Writers : removeFollow_catch(p) /\ UNCHANGED nonGraphVars
    \/ \E uid \in Ids, tid \in Ids, threw \in BOOLEAN : isFollowing_call(uid, tid, threw)
    \/ \E uid \in Ids, threw \in BOOLEAN : findFollowers_call(uid, threw)
    \/ \E threw \in BOOLEAN : findFollowers_find(threw)
    \/ \E uid \in Ids, threw \in BOOLEAN : findFollowing_call(uid, threw)
    \/ \E threw \in BOOLEAN : findFollowing_find(threw)
    \/ \E uid \in Ids, threw \in BOOLEAN : getFollowCounts_call(uid, threw)

\* the same, with the calls that create, overwrite or delete a record
NextRead ==
    \/ NextFollowRead
    \/ \E id \in Ids, threw \in BOOLEAN : create(id, threw) /\ CallStarts
    \/ \E id \in Ids, updates \in Updates, threw \in BOOLEAN :
          updateAccountById(id, updates, threw) /\ CallStarts
    \/ \E id \in Ids, threw \in BOOLEAN : deleteById(id, threw) /\ CallStarts

SpecRead == Init /\ [][NextRead]_vars

\* followUser, removeFollow and the reads alone, on the records of the start
SpecFollowRead == Init /\ [][NextFollowRead]_vars

----------------------------------------------------------------------------
(* userRouter: each route runs its middlewares in the order they are listed *)
(* in; a middleware that throws ends the request, and none after it runs.   *)

\* the follow graph at rest
GraphIdle ==
    /\ User = [d \in Users |-> [followers |-> <<>>, following |-> <<>>]]
    /\ pc = [p \in Procs |-> "idle"]
    /\ fn = [p \in Procs |-> "none"]
    /\ userId = [p \in Procs |-> 0]
    /\ targetUserId = [p \in Procs |-> 0]
    /\ session = [p \in Procs |-> "none"]
    /\ snap = [p \in Procs |-> NoSnapshot]
    /\ wbuf = [p \in Procs |-> NoWrites]
    /\ stale = [p \in Procs |-> {}]
    /\ log = [p \in Procs |-> <<>>]
    /\ result = [p \in Procs |-> "none"]
    /\ started = 0

\* a route that leaves authorizeUserAction() out
NoGate == <<>>

\* authorizeUserAction() as listed in a route
SelfOrAdminGate == <<"authorizeUserAction">>

RouteNames == {"GET /profile/:id", "GET /:id", "PATCH /:id", "PATCH /:id/avatar",
               "POST /follow/:targetUserId", "DELETE /unfollow/:targetUserId",
               "GET /:id/followers", "GET /:id/following"}

\* userRouter.get / patch / post / delete
RouteMethod(route) ==
    CASE route \in {"GET /profile/:id", "GET /:id", "GET /:id/followers", "GET /:id/following"} -> "GET"
      [] route \in {"PATCH /:id", "PATCH /:id/avatar"} -> "PATCH"
      [] route = "POST /follow/:targetUserId" -> "POST"
      [] route = "DELETE /unfollow/:targetUserId" -> "DELETE"

\* the middlewares of a route, the controller method last
Chain(route) ==
    CASE route = "GET /profile/:id" ->
            <<"authenticate">> \o SelfOrAdminGate \o <<"getUserProfile">>
      [] route = "GET /:id" ->
            <<"authenticate", "authorize">> \o SelfOrAdminGate \o <<"getById">>
      [] route = "PATCH /:id" ->
            <<"authenticate", "authorize">> \o SelfOrAdminGate
                \o <<"validateBody", "updateAccountDetails">>
      [] route = "PATCH /:id/avatar" ->
            <<"authenticate", "authorize">> \o SelfOrAdminGate
                \o <<"uploadSingle", "validateFileSchema", "updateAvatar">>
      [] route = "POST /follow/:targetUserId" -> <<"authenticate", "followUser">>
      [] route = "DELETE /unfollow/:targetUserId" -> <<"authenticate", "unfollowUser">>
      [] route = "GET /:id/followers" -> <<"authenticate", "getFollowers">>
      [] route = "GET /:id/following" -> <<"authenticate", "getFollowing">>

Controllers == {"getUserProfile", "getById", "updateAccountDetails", "updateAvatar",
                "followUser", "unfollowUser", "getFollowers", "getFollowing"}
Validators == {"validateBody", "uploadSingle", "validateFileSchema"}

\* a path parameter is a non-empty string
PathIds == {Str(i) : i \in ActorIds}

\* the name of the parameter in the pattern of a route
RouteParam(route) ==
    IF route \in {"POST /follow/:targetUserId", "DELETE /unfollow/:targetUserId"}
    THEN "targetUserId"
    ELSE "id"

\* req.params.id on a route: the value matched by :id, undefined where the pattern
\* names its parameter otherwise
ParamsId(route) == IF RouteParam(route) = "id" THEN PathIds ELSE {Undefined}

\* the middleware that is next to run, "none" once the request has ended
Current ==
    IF http.route # "none" /\ http.error = 0 /\ http.at <= Len(Chain(http.route))
    THEN Chain(http.route)[http.at]
    ELSE "none"

\* the current middleware has run: it called next() (status 0) or threw
Ran(status) ==
    [http EXCEPT !.at = @ + 1, !.ran = Append(@, Current), !.error = status]

\* authenticate: throws 401, or calls next() with req.user as it left it
Route_authenticate(throws, user) ==
    /\ Current = "authenticate"
    /\ http' = Ran(IF throws THEN 401 ELSE 0)
    /\ req' = IF throws THEN req ELSE [req EXCEPT !.user = user]
    /\ UNCHANGED <<res, graphVars, readVars, handlerVars>>

\* authorize(PERMISSIONS.USER.x): throws 403 or calls next()
Route_authorize(throws) ==
    /\ Current = "authorize"
    /\ http' = Ran(IF throws THEN 403 ELSE 0)
    /\ UNCHANGED <<req, res, graphVars, readVars, handlerVars>>

\* authorizeUserAction()
Route_authorizeUserAction ==
    /\ Current = "authorizeUserAction"
    /\ res' = authorizeUserAction(DefaultMessage, req)
    /\ http' = Ran(res'.thrown)
    /\ UNCHANGED <<req, graphVars, readVars, handlerVars>>

\* validateBody(schema), uploadSingle("avatar"), validateFileSchema(schema): each
\* throws 400 or calls next()
Route_validate(throws) ==
    /\ Current \in Validators
    /\ http' = Ran(IF throws THEN 400 ELSE 0)
    /\ UNCHANGED <<req, res, graphVars, readVars, handlerVars>>

\* asyncHandler(userController.method): the handler; on a route that is no GET it
\* may change a user record
Route_controller(changes) ==
    /\ Current \in Controllers
    /\ http' = [Ran(0) EXCEPT !.changed = changes /\ RouteMethod(http.route) # "GET"]
    /\ UNCHANGED <<req, res, graphVars, readVars, handlerVars>>

InitRoute ==
    /\ GraphIdle
    /\ rd = NoRead
    /\ HandlerInit
    /\ \E route \in RouteNames :
          /\ http = [NoDispatch EXCEPT !.route = route, !.at = 1]
          /\ req \in [user : {Undefined}, id : ParamsId(route), method : {Str(RouteMethod(route))}]
    /\ res = NoResponse

NextRoute ==
    \/ \E throws \in BOOLEAN, user \in ReqUsers : Route_authenticate(throws, user)
    \/ \E throws \in BOOLEAN : Route_authorize(throws)
    \/ Route_authorizeUserAction
    \/ \E throws \in BOOLEAN : Route_validate(throws)
    \/ \E changes \in BOOLEAN : Route_controller(changes)

SpecRoute == InitRoute /\ [][NextRoute]_vars

----------------------------------------------------------------------------
(* index.ts: the serverless handler and its one-time initialisation *)

\* init() that starts the initialisation on every call
InitAlways(p) == TRUE

\* if (!initPromise)
InitNeeded(p) == p = "null"

\* a failed initialisation that clears initPromise for the next invocation
initPromiseCleared == "null"

\* the async function of init() has no catch: when connectDB() rejects, the promise
\* held in initPromise is rejected, and initPromise keeps holding it
initPromiseAfterFailure == "rejected"

\* export default async function handler(req, res): try { await init();
\* init() runs up to its await in the same turn: it creates initPromise when there is
\* none, which calls connectDB(), and awaits initPromise.
handler(h) ==
    /\ inv[h].pc = "idle"
    /\ inv' = [inv EXCEPT ![h].pc = "awaiting"]
    /\ IF InitNeeded(initPromise)
       THEN /\ initPromise' = "pending"
            /\ connectDB' = Append(connectDB, "pending")
       ELSE UNCHANGED <<initPromise, connectDB>>
    /\ UNCHANGED <<graphVars, authVars, readVars, routeVars>>

\* await connectDB() resolves; logger.info; initPromise is fulfilled
connectDB_resolves ==
    \E i \in DOMAIN connectDB :
        /\ connectDB[i] = "pending"
        /\ connectDB' = [connectDB EXCEPT ![i] = "resolved"]
        /\ initPromise' = IF i = Len(connectDB) THEN "fulfilled" ELSE initPromise
        /\ UNCHANGED <<inv, graphVars, authVars, readVars, routeVars>>

\* await connectDB() rejects
connectDB_rejects ==
    \E i \in DOMAIN connectDB :
        /\ connectDB[i] = "pending"
        /\ connectDB' = [connectDB EXCEPT ![i] = "rejected"]
        /\ initPromise' = IF i = Len(connectDB) THEN initPromiseAfterFailure ELSE initPromise
        /\ UNCHANGED <<inv, graphVars, authVars, readVars, routeVars>>

\* await init() returns; return app(req, res); an error thrown by app is caught:
\* res.status(500)
handler_app(h, threw) ==
    /\ inv[h].pc = "awaiting"
    /\ initPromise = "fulfilled"
    /\ inv' = [inv EXCEPT ![h] = [pc |-> "done", dispatched |-> TRUE,
                                  status |-> IF threw THEN 500 ELSE 0]]
    /\ UNCHANGED <<initPromise, connectDB, graphVars, authVars, readVars, routeVars>>

\* await init() throws; catch (err): res.status(500).json(...)
handler_catch(h) ==
    /\ inv[h].pc = "awaiting"
    /\ initPromise = "rejected"
    /\ inv' = [inv EXCEPT ![h] = [pc |-> "done", dispatched |-> FALSE, status |-> 500]]
    /\ UNCHANGED <<initPromise, connectDB, graphVars, authVars, readVars, routeVars>>

InitHandler ==
    /\ GraphIdle
    /\ req = NoRequest
    /\ res = NoResponse
    /\ rd = NoRead
    /\ http = NoDispatch
    /\ HandlerInit

NextHandler ==
    \/ \E h \in Invocations : handler(h)
    \/ connectDB_resolves
    \/ connectDB_rejects
    \/ \E h \in Invocations, threw \in BOOLEAN : handler_app(h, threw)
    \/ \E h \in Invocations : handler_catch(h)

SpecHandler == InitHandler /\ [][NextHandler]_vars

----------------------------------------------------------------------------
(* Properties of the follow graph *)

\* no call is between its startSession and its return
AtRest == \A p \in Procs : pc[p] \in {"idle", "done"}

\* a is recorded among the followers of b / b is recorded among the following of a
InFollowers(a, b) == b \in DOMAIN User /\ a \in Range(User[b].followers)
InFollowing(a, b) == a \in DOMAIN User /\ b \in Range(User[a].following)

\* this step is a step of the call of request p
StepOf(p) == pc'[p] # pc[p] /\ pc[p] \notin {"idle", "done"}
\* this step completes the call of request p
Finishes(p) == StepOf(p) /\ pc'[p] = "done"

HasEntry(l, call, out) == \E i \in DOMAIN l : l[i].call = call /\ l[i].out = out
\* some storage call of the call threw
Faulted(l) == \E i \in DOMAIN l : l[i].out \in {"threw", "rejected", "lost"}

\* C1: whenever no call is in flight, for every pair of users (A,B), A is in
\* B.followers if and only if B is in A.following.
C1_DualConsistency ==
    AtRest => \A a \in Users, b \in Users : InFollowers(a, b) <=> InFollowing(a, b)

\* an edge between two users exists at rest, after a call that failed
C1_Witness ==
    /\ AtRest
    /\ InFollowers(1, 2) /\ InFollowing(1, 2)
    /\ \E p \in Procs : result[p] = "false" /\ Faulted(log[p])

\* C2 (as claimed): a call one of whose writes found no record for its id reports
\* failure and changes no document.
C2_MissingRecordAborts ==
    [][\A p \in Procs :
          (StepOf(p) /\ HasEntry(log[p], "findByIdAndUpdate", "null"))
              => /\ User' = User
                 /\ (pc'[p] = "done" => result'[p] # "true")]_vars

\* C3 (as claimed): a call interrupted by a fault inside its try block, before its
\* commit is accepted, leaves the collection as it was and returns false.
C3_AtomicRollback ==
    [][\A p \in Procs :
          (StepOf(p) /\ pc[p] = "catch" /\ ~HasEntry(log[p], "commitTransaction", "lost"))
              => /\ User' = User
                 /\ result'[p] = "false"]_vars

\* C4: in every state, also while a call has issued a write and not committed, the
\* reads agree on every pair of users: isFollowing(A,B), B among findFollowing(A) and
\* A among findFollowers(B) are all true or all false, and the counts are those of
\* the same arrays.
C4_Isolation ==
    \A a \in Users, b \in Users :
        /\ isFollowing(a, b) <=> [id |-> b] \in Range(findFollowing(a))
        /\ isFollowing(a, b) <=> [id |-> a] \in Range(findFollowers(b))
        /\ getFollowCounts(a).followingCount = 0 => ~isFollowing(a, b)
        /\ getFollowCounts(b).followerCount = 0 => [id |-> b] \notin Range(findFollowing(a))

\* a followUser call has written the followers of its target and has not committed
C4_Witness ==
    \E p \in Procs :
        /\ fn[p] = "followUser" /\ pc[p] = "write2"
        /\ targetUserId[p] \in DOMAIN wbuf[p]
        /\ userId[p] \in Range(wbuf[p][targetUserId[p]].followers)
        /\ ~isFollowing(userId[p], targetUserId[p])

\* C5 (as claimed): for all distinct A and B, when followUser(A,B) returns true then
\* right afterwards isFollowing(A,B) holds, A is in B.followers and B in A.following.
C5_FollowEstablishesEdge ==
    [][\A p \in Procs :
          (Finishes(p) /\ fn[p] = "followUser" /\ result'[p] = "true"
              /\ userId[p] # targetUserId[p])
              => /\ isFollowing(userId[p], targetUserId[p])'
                 /\ InFollowers(userId[p], targetUserId[p])'
                 /\ InFollowing(userId[p], targetUserId[p])']_vars

\* this step starts a call on request p
Starts(p, f) == pc[p] \in {"idle", "done"} /\ pc'[p] # "idle" /\ started' # started /\ fn'[p] = f

\* the follower and following counts of every user
AllCounts == [u \in Users |-> getFollowCounts(u)]

\* C8: removeFollow(A,A) returns false at once for every A: it starts no session and
\* no transaction, issues no storage call and changes no followers or following array.
C8_RemoveFollowSelfNoOp ==
    /\ [](\A p \in Procs :
            (fn[p] = "removeFollow" /\ userId[p] = targetUserId[p])
                => /\ pc[p] = "done" /\ result[p] = "false"
                   /\ session[p] = "none" /\ log[p] = <<>>
                   /\ wbuf[p] = NoWrites /\ snap[p] = NoSnapshot)
    /\ [][\A p \in Procs :
            (Starts(p, "removeFollow") /\ userId'[p] = targetUserId'[p]) => User' = User]_vars

\* removeFollow(A,A) has returned for a user A that follows itself
C8_Witness ==
    \E p \in Procs :
        /\ fn[p] = "removeFollow" /\ pc[p] = "done"
        /\ userId[p] = targetUserId[p] /\ userId[p] \in Users
        /\ InFollowers(userId[p], userId[p]) /\ InFollowing(userId[p], userId[p])

\* C9: for existing distinct users A and B a followUser(A,B) that no storage error
\* interrupts reports success, and when the edge is already there it leaves every
\* followers and following array, and so every count, as it was.
C9_FollowIdempotent ==
    [][\A p \in Procs :
          (Finishes(p) /\ fn[p] = "followUser"
              /\ userId[p] \in Users /\ targetUserId[p] \in Users
              /\ userId[p] # targetUserId[p])
              => /\ ~Faulted(log'[p]) => result'[p] = "true"
                 /\ (result'[p] = "true" /\ InFollowers(userId[p], targetUserId[p])
                        /\ InFollowing(userId[p], targetUserId[p]))
                       => (User' = User /\ AllCounts' = AllCounts)]_vars

\* a followUser(A,B) on an edge that was already there has returned true: neither of
\* its writes modified a document and B still has exactly one follower
C9_Witness ==
    \E p \in Procs :
        /\ fn[p] = "followUser" /\ pc[p] = "done" /\ result[p] = "true"
        /\ userId[p] \in Users /\ targetUserId[p] \in Users
        /\ userId[p] # targetUserId[p]
        /\ \A i \in DOMAIN log[p] : ~log[p][i].changed
        /\ User[targetUserId[p]].followers = <<userId[p]>>
        /\ User[userId[p]].following = <<targetUserId[p]>>
        /\ getFollowCounts(targetUserId[p]).followerCount = 1

\* neither side of the edge (a,b) is recorded
NoEdge(a, b) == ~InFollowers(a, b) /\ ~InFollowing(a, b)

\* C10: for distinct A and B with no edge, removeFollow(A,B) returns true exactly when
\* its transaction commits, and leaves every followers and following array and every
\* count unchanged.
C10_RemoveFollowIdempotent ==
    [][\A p \in Procs :
          (Finishes(p) /\ fn[p] = "removeFollow" /\ pc[p] = "commit"
              /\ userId[p] # targetUserId[p]
              /\ NoEdge(userId[p], targetUserId[p]))
              => /\ HasEntry(log'[p], "commitTransaction", "ok") <=> result'[p] = "true"
                 /\ User' = User
                 /\ AllCounts' = AllCounts]_vars

\* a removeFollow(A,B) on a pair without an edge has returned true while B has a
\* follower other than A
C10_Witness ==
    \E p \in Procs :
        /\ fn[p] = "removeFollow" /\ pc[p] = "done" /\ result[p] = "true"
        /\ userId[p] # targetUserId[p] /\ targetUserId[p] \in Users
        /\ \A i \in DOMAIN log[p] : ~log[p][i].changed
        /\ NoEdge(userId[p], targetUserId[p])
        /\ getFollowCounts(targetUserId[p]).followerCount = 1

\* C11: a completed followUser or removeFollow call in which a storage call (startSession,
\* startTransaction, a write, the commit or the abort) failed has returned false; it
\* never leaves by a raised error.
C11_StorageErrorsReturnFalse ==
    \A p \in Procs :
        (pc[p] = "done" /\ Faulted(log[p])) => result[p] = "false"

\* C12: whenever no call is in flight, the followerCount of every user B is the number
\* of ids A with isFollowing(A,B), and its followingCount is the number of ids C with
\* isFollowing(B,C).
C12_CountsMatchEdges ==
    AtRest => \A b \in Users :
        /\ getFollowCounts(b).followerCount = Cardinality({a \in Ids : isFollowing(a, b)})
        /\ getFollowCounts(b).followingCount = Cardinality({c \in Ids : isFollowing(b, c)})

\* the transaction of this call was applied by the store
Applied(l) ==
    HasEntry(l, "commitTransaction", "ok") \/ HasEntry(l, "commitTransaction", "lost")

\* request p runs f(a,b)
Runs(p, f, a, b) == fn[p] = f /\ userId[p] = a /\ targetUserId[p] = b

\* the collection after f(a,b) has run alone on it and committed
SerialCall(store, f, a, b) ==
    LET u1 == IF f = "followUser" THEN followUserUpdate1(a, b) ELSE removeFollowUpdate1(a, b)
        u2 == IF f = "followUser" THEN followUserUpdate2(a, b) ELSE removeFollowUpdate2(a, b)
        s1 == IF u1.id \in DOMAIN store
              THEN [store EXCEPT ![u1.id] = ApplyUpdate(@, u1)] ELSE store
        s2 == IF u2.id \in DOMAIN s1 THEN [s1 EXCEPT ![u2.id] = ApplyUpdate(@, u2)] ELSE s1
    IN  IF f = "removeFollow" /\ removeFollowGuard(a, b) THEN store ELSE s2

C19_SelfEdgePermanent ==
    [][\A p \in Procs :
          /\ (Finishes(p) /\ fn[p] = "followUser" /\ userId[p] = targetUserId[p]
                /\ userId[p] \in Users)
                => /\ ~Faulted(log'[p]) => result'[p] = "true"
                   /\ result'[p] = "true"
                        => InFollowers(userId[p], userId[p])' /\ InFollowing(userId[p], userId[p])'
          /\ (StepOf(p) /\ fn[p] = "removeFollow")
                => \A a \in Users :
                      /\ InFollowers(a, a) => InFollowers(a, a)'
                      /\ InFollowing(a, a) => InFollowing(a, a)']_vars

\* a removeFollow(X,A) of another user X has returned true while A follows itself,
\* and A still does
C19_Witness ==
    \E p \in Procs, a \in Users :
        /\ fn[p] = "removeFollow" /\ pc[p] = "done" /\ result[p] = "true"
        /\ targetUserId[p] = a /\ userId[p] # a
        /\ InFollowers(a, a) /\ InFollowing(a, a)

\* the number of storage calls of that name, with that outcome, in a call's log
Count(l, call, out) == Cardinality({i \in DOMAIN l : l[i].call = call /\ l[i].out = out})

\* C21: a completed followUser or removeFollow call that started a session has started
\* one transaction on it, has finished it once, by a commit or by an abort that
\* succeeded and not by both, has ended the session once, and has left no session open.
C21_SessionLifecycle ==
    \A p \in Procs :
        (pc[p] = "done" /\ HasEntry(log[p], "startSession", "ok")) =>
            /\ Count(log[p], "startTransaction", "ok") = 1
            /\ Count(log[p], "commitTransaction", "ok")
                 + Count(log[p], "abortTransaction", "ok") = 1
            /\ Count(log[p], "endSession", "ok") = 1
            /\ session[p] = "ended"

----------------------------------------------------------------------------
(* Properties of the reads *)

\* this step is the one in which the read op returns
Reads(op) == rd' # rd /\ rd'.op = op /\ Returned(rd')

\* C14: getFollowCounts(U) returns null when U has no record and counts otherwise,
\* {0,0} for a user without edges; it returns null only when U has no record.
C14_NullOnlyWhenNoRecord ==
    [][Reads("getFollowCounts") =>
          LET u == rd'.userId
          IN  /\ u \notin DOMAIN User => rd'.out = Null
              /\ rd'.out = Null => u \notin DOMAIN User
              /\ (u \in DOMAIN User /\ User[u] = NewUser)
                    => rd'.out = [followerCount |-> 0, followingCount |-> 0]]_vars

\* this step is a step of a followUser or removeFollow call, its first one included
CallStep(p) == pc'[p] # pc[p]

\* C16: a step of followUser(A,B) or removeFollow(A,B) changes no followers array but
\* that of B and no following array but that of A, and neither adds nor removes a
\* record; a step of a read changes no record.
C16_Frame ==
    [][/\ \A p \in Procs : CallStep(p) =>
             /\ DOMAIN User' = DOMAIN User
             /\ \A d \in DOMAIN User :
                   /\ d # targetUserId'[p] => User'[d].followers = User[d].followers
                   /\ d # userId'[p] => User'[d].following = User[d].following
       /\ (rd' # rd /\ rd' # NoRead) => User' = User]_vars

\* the second query of findFollowers has returned the follower that a followUser(A,B)
\* on distinct users wrote, and the other two arrays of A and B are empty
C16_Witness ==
    \E p \in Procs :
        /\ fn[p] = "followUser" /\ pc[p] = "done" /\ result[p] = "true"
        /\ userId[p] \in DOMAIN User /\ targetUserId[p] \in DOMAIN User
        /\ userId[p] # targetUserId[p]
        /\ rd.op = "findFollowers" /\ rd.userId = targetUserId[p] /\ ~rd.pending
        /\ rd.out = <<[id |-> userId[p]]>>
        /\ User[userId[p]].followers = <<>> /\ User[targetUserId[p]].following = <<>>

\* C17: without a storage error, findFollowers(U) returns one summary for each id that
\* it read from U.followers and no other, as many as the followerCount of that moment,
\* and the empty sequence when U has no followers or no record; findFollowing likewise.
C17_OneSummaryPerId ==
    [][\A op \in {"findFollowers", "findFollowing"} :
          (Reads(op) /\ ~rd'.threw) =>
              /\ {rd'.out[i].id : i \in DOMAIN rd'.out} = Range(rd'.ids)
              /\ Len(rd'.out) = Len(rd'.ids)]_vars

----------------------------------------------------------------------------
(* Properties of authorizeUserAction *)

Authenticated(r) == r.user.kind = "user"
ValidTarget(r) == r.id.kind = "string" /\ r.id.val # ""
IsSelf(r) == r.user.id = r.id.val
IsAdmin(r) == r.user.role = "ADMIN"
IsDelete(r) == r.method.kind = "string" /\ r.method.val \in {"DELETE", "delete"}

Allowed(x) == x.ran /\ x.next = 1 /\ x.thrown = 0
Denied(x, status) == x.ran /\ x.next = 0 /\ x.thrown = status

\* C6: for an authenticated actor and a valid target the outcome is the one of the
\* table over (isSelf, isAdmin, method is DELETE): an admin is denied (403) only for
\* DELETE on itself, a plain user is allowed on itself and denied (403) on anyone
\* else; allow calls next() once and throws nothing, deny throws and never calls next().
C6_AuthorizationMatrix ==
    (res.ran /\ Authenticated(req) /\ ValidTarget(req)) =>
        LET allow == \/ IsAdmin(req) /\ ~(IsSelf(req) /\ IsDelete(req))
                     \/ ~IsAdmin(req) /\ IsSelf(req)
        IN  IF allow THEN Allowed(res) ELSE Denied(res, 403)

\* an admin asking to DELETE itself has been denied
C6_Witness ==
    /\ res.ran /\ Authenticated(req) /\ ValidTarget(req)
    /\ IsAdmin(req) /\ IsSelf(req) /\ IsDelete(req)
    /\ Denied(res, 403)

\* C7: without an actor the middleware throws 401 whatever the target and the method
\* are; with an actor and a missing or empty target id it throws 400; next() is
\* called in neither case.
C7_UnauthenticatedAndBadTarget ==
    res.ran =>
        /\ ~Authenticated(req) => Denied(res, 401)
        /\ (Authenticated(req) /\ Falsy(req.id)) => Denied(res, 400)

\* a request with neither an actor nor a target id has been answered 401
C7_Witness ==
    /\ res.ran
    /\ ~Authenticated(req) /\ req.id.kind = "undefined"
    /\ Denied(res, 401)

----------------------------------------------------------------------------
(* Properties of the routes *)

\* the routes that list authorizeUserAction()
GatedRoutes == {"PATCH /:id", "PATCH /:id/avatar", "GET /:id", "GET /profile/:id"}

\* middleware x ran, and y ran after it
RanBefore(x, y) ==
    \E i \in DOMAIN http.ran, j \in DOMAIN http.ran : i < j /\ http.ran[i] = x /\ http.ran[j] = y

ControllerRan == \E i \in DOMAIN http.ran : http.ran[i] \in Controllers

\* C15: on the routes gated by authorizeUserAction the controller method runs, and a
\* record changes, only after authenticate and then authorizeUserAction have run and
\* authorizeUserAction has called next(); once authorizeUserAction has thrown 401, 400
\* or 403 it is the last middleware that ran, and no record has changed.
C15_AuthorizationPrecedesMutation ==
    http.route \in GatedRoutes =>
        /\ (ControllerRan \/ http.changed) =>
              /\ \E c \in Controllers :
                    /\ RanBefore("authenticate", "authorizeUserAction")
                    /\ RanBefore("authorizeUserAction", c)
              /\ Allowed(res)
        /\ (res.ran /\ res.thrown \in {401, 400, 403}) =>
              /\ http.ran[Len(http.ran)] = "authorizeUserAction"
              /\ http.error = res.thrown
              /\ Current = "none"
              /\ ~ControllerRan /\ ~http.changed

\* PATCH /:id of an admin on another user has reached updateAccountDetails, which
\* changed a record
C15_Witness ==
    /\ http.route = "PATCH /:id"
    /\ http.ran = <<"authenticate", "authorize", "authorizeUserAction", "validateBody",
                    "updateAccountDetails">>
    /\ http.changed
    /\ Authenticated(req) /\ IsAdmin(req) /\ ~IsSelf(req)

----------------------------------------------------------------------------
(* Properties of the handler *)

\* C18: over all the invocations of handler in a process, init() calls connectDB at
\* most once, and a request is dispatched to the app only when that call has resolved.
C18_InitOnce ==
    /\ Len(connectDB) <= 1
    /\ \A h \in Invocations :
          inv[h].dispatched => Len(connectDB) = 1 /\ connectDB[1] = "resolved"

\* every invocation was dispatched: some awaited the pending initialisation together,
\* and connectDB was called once
C18_Witness ==
    /\ Len(connectDB) = 1
    /\ \A h \in Invocations : inv[h].pc = "done" /\ inv[h].dispatched

\* C20: once the connectDB call of init() has failed, initPromise holds the rejected
\* promise, connectDB has been called that once only, no invocation has been
\* dispatched to the app, and every invocation that has returned responded 500.
C20_StickyInitFailure ==
    (\E i \in DOMAIN connectDB : connectDB[i] = "rejected") =>
        /\ initPromise = "rejected"
        /\ Len(connectDB) = 1
        /\ \A h \in Invocations :
              /\ ~inv[h].dispatched
              /\ inv[h].pc = "done" => inv[h].status = 500

\* connectDB has failed and every invocation has responded 500
C20_Witness ==
    /\ connectDB = <<"rejected">>
    /\ \A h \in Invocations : inv[h].pc = "done" /\ inv[h].status = 500

====
